---- MODULE Spec2Model ----
(***************************************************************************)
(* Model of zoom-elgato-light-automation.py: the configuration parser, the *)
(* Kelvin to mired conversion, the fan-out set_lights and the camera       *)
(* monitor loop with its producer process.                                 *)
(*                                                                         *)
(* Text is modelled as sequences of one-character strings; an event line   *)
(* is a sequence of words in which each marker is one word.                *)
(***************************************************************************)
EXTENDS Integers, Sequences, FiniteSets, TLC

VARIABLES
    lights_env,   \* os.environ["ELGATO_LIGHTS"], a sequence of characters
    LIGHTS,       \* module global LIGHTS, a sequence of LightConfig records
    pc,           \* position of the main process
    exit_code,    \* process exit code, -1 while running
    camera_on,    \* local camera_on of monitor_camera
    producer,     \* state of the "log stream" subprocess
    popens,       \* number of times subprocess.Popen was called
    stdout_buf,   \* lines written to process.stdout and not yet read
    emitted,      \* number of lines the producer has written
    consumed,     \* history: lines the for loop has read, in order
    cam_trace,    \* history: camera_on at start and after each line read
    calls,        \* history: argument of each set_lights call, in order
    on,           \* argument of the current set_lights call
    idx,          \* position of the current set_lights call in LIGHTS
    sent,         \* requests of the current (or last) set_lights call
    loop_exit,    \* why the for loop of monitor_camera ended
    uncaught,     \* the exception that ended the process, "none" without one
    written,      \* history: lines the producer has written to stdout, in order
    req_log,      \* history: the requests of each set_lights call, in order
    stderr_len,   \* chunks written to process.stderr, which nothing reads
    conv          \* the status tool's conversion of one temperature

vars == <<lights_env, LIGHTS, pc, exit_code, camera_on, producer, popens,
          stdout_buf, emitted, consumed, cam_trace, calls, on, idx, sent,
          loop_exit, uncaught, written, req_log, stderr_len, conv>>

-----------------------------------------------------------------------------
(* Bounds *)

MaxLines == 3
\* chunks the stderr pipe holds before a write to it blocks
StderrCapacity == 1

-----------------------------------------------------------------------------
(* Program constants *)

PORT == 9123
DefaultBrightness == 100
DefaultTemperature == 5600
MiredNumerator == 1000000
MinMireds == 143
MaxMireds == 344
ExitFailure == 1
ExitSuccess == 0
MinKelvin == 2900
MaxKelvin == 7000

StartMarker == "CMIODeviceStartStream"
StopMarker == "CMIODeviceStopStream"

InitialCameraOn_On == TRUE
InitialCameraOn == FALSE

-----------------------------------------------------------------------------
(* str.strip, str.split and int() *)

Whitespace == {" "}
Digits == {"0", "1", "2", "3", "4", "5", "6", "7", "8", "9"}

DigitVal(c) ==
    CASE c = "0" -> 0 [] c = "1" -> 1 [] c = "2" -> 2 [] c = "3" -> 3
      [] c = "4" -> 4 [] c = "5" -> 5 [] c = "6" -> 6 [] c = "7" -> 7
      [] c = "8" -> 8 [] c = "9" -> 9

RECURSIVE LStrip(_)
LStrip(s) ==
    IF s # <<>> /\ Head(s) \in Whitespace THEN LStrip(Tail(s)) ELSE s

RECURSIVE RStrip(_)
RStrip(s) ==
    IF s # <<>> /\ s[Len(s)] \in Whitespace
    THEN RStrip(SubSeq(s, 1, Len(s) - 1))
    ELSE s

Strip(s) == RStrip(LStrip(s))

\* s.split(sep): the pieces between the separators, always at least one
RECURSIVE SplitFrom(_, _, _)
SplitFrom(s, sep, cur) ==
    IF s = <<>> THEN <<cur>>
    ELSE IF Head(s) = sep THEN <<cur>> \o SplitFrom(Tail(s), sep, <<>>)
    ELSE SplitFrom(Tail(s), sep, Append(cur, Head(s)))

Split(s, sep) == SplitFrom(s, sep, <<>>)

RECURSIVE DigitsValue(_, _)
DigitsValue(s, acc) ==
    IF s = <<>> THEN acc ELSE DigitsValue(Tail(s), 10 * acc + DigitVal(Head(s)))

\* int(text): surrounding whitespace dropped, an optional sign, then digits;
\* anything else is a ValueError
ParseInt(text) ==
    LET t == Strip(text)
        signed == t # <<>> /\ Head(t) \in {"+", "-"}
        body == IF signed THEN Tail(t) ELSE t
        good == body # <<>> /\ \A i \in DOMAIN body : body[i] \in Digits
    IN  IF ~good THEN [ok |-> FALSE, val |-> 0]
        ELSE [ok |-> TRUE,
              val |-> IF signed /\ Head(t) = "-"
                      THEN 0 - DigitsValue(body, 0)
                      ELSE DigitsValue(body, 0)]

-----------------------------------------------------------------------------
(* LightConfig and parse_lights_config *)

LightConfig(ip, brightness, temperature) ==
    [ip |-> ip, brightness |-> brightness, temperature |-> temperature]

\* One iteration of the loop over the entries: what it does with the entry
ParseEntry_FourFields(entry) ==
    LET e == Strip(entry)
        parts == Split(e, ":")
    IN  IF e = <<>> THEN [kind |-> "skip"]
        ELSE IF Len(parts) = 1
        THEN [kind |-> "light",
              light |-> LightConfig(parts[1], DefaultBrightness, DefaultTemperature)]
        ELSE IF Len(parts) >= 3
        THEN IF ParseInt(parts[2]).ok /\ ParseInt(parts[3]).ok
             THEN [kind |-> "light",
                   light |-> LightConfig(parts[1], ParseInt(parts[2]).val,
                                         ParseInt(parts[3]).val)]
             ELSE [kind |-> "ValueError"]
        ELSE [kind |-> "warning"]

ParseEntry(entry) ==
    LET e == Strip(entry)
        parts == Split(e, ":")
    IN  IF e = <<>> THEN [kind |-> "skip"]
        ELSE IF Len(parts) = 1
        THEN [kind |-> "light",
              light |-> LightConfig(parts[1], DefaultBrightness, DefaultTemperature)]
        ELSE IF Len(parts) = 3
        THEN IF ParseInt(parts[2]).ok /\ ParseInt(parts[3]).ok
             THEN [kind |-> "light",
                   light |-> LightConfig(parts[1], ParseInt(parts[2]).val,
                                         ParseInt(parts[3]).val)]
             ELSE [kind |-> "ValueError"]
        ELSE [kind |-> "warning"]

RECURSIVE ParseEntries(_, _)
ParseEntries(entries, lights) ==
    IF entries = <<>> THEN [raised |-> FALSE, lights |-> lights]
    ELSE LET r == ParseEntry(Head(entries))
         IN  IF r.kind = "ValueError" THEN [raised |-> TRUE, lights |-> <<>>]
             ELSE IF r.kind = "light"
             THEN ParseEntries(Tail(entries), Append(lights, r.light))
             ELSE ParseEntries(Tail(entries), lights)

parse_lights_config(env) ==
    IF env = <<>> THEN [raised |-> FALSE, lights |-> <<>>]
    ELSE ParseEntries(Split(env, ","), <<>>)

-----------------------------------------------------------------------------
(* LightConfig.temperature_mireds *)

Max(a, b) == IF a >= b THEN a ELSE b
Min(a, b) == IF a <= b THEN a ELSE b

\* int(a / b) for b # 0: the quotient truncated toward zero
TruncDiv(a, b) ==
    IF b > 0 THEN a \div b ELSE 0 - (a \div (0 - b))

\* round(a / b) for b > 0, the nearest integer
RoundDiv(a, b) == (2 * a + b) \div (2 * b)

DivisionRaises(temperature) == temperature = 0

temperature_mireds_Rounded(temperature) ==
    Max(MinMireds, Min(MaxMireds,
        IF temperature > 0 THEN RoundDiv(MiredNumerator, temperature)
        ELSE TruncDiv(MiredNumerator, temperature)))

temperature_mireds_Unclamped(temperature) ==
    TruncDiv(MiredNumerator, temperature)

temperature_mireds(temperature) ==
    Max(MinMireds, Min(MaxMireds, TruncDiv(MiredNumerator, temperature)))

-----------------------------------------------------------------------------
(* set_lights: the payload and the request of one light *)

Payload_OffCarriesSettings(light, turn_on) ==
    IF turn_on
    THEN [on |-> 1, brightness |-> light.brightness,
          temperature |-> temperature_mireds(light.temperature)]
    ELSE [on |-> 0, brightness |-> light.brightness]

\* The settings are sent with the first set_lights call only
Payload_FirstCallOnly(light, turn_on) ==
    IF turn_on /\ Len(calls) <= 1
    THEN [on |-> 1, brightness |-> light.brightness,
          temperature |-> temperature_mireds(light.temperature)]
    ELSE [on |-> IF turn_on THEN 1 ELSE 0]

Payload(light, turn_on) ==
    IF turn_on
    THEN [on |-> 1, brightness |-> light.brightness,
          temperature |-> temperature_mireds(light.temperature)]
    ELSE [on |-> 0]

Request(light, turn_on, ok) ==
    [ip |-> light.ip, port |-> PORT, payload |-> Payload(light, turn_on),
     ok |-> ok, logged |-> IF ok THEN "OK" ELSE "FAILED"]

\* What one request puts on the wire: the URL's address and port, and the body
Command(light, turn_on) ==
    [ip |-> light.ip, port |-> PORT, payload |-> Payload(light, turn_on)]

-----------------------------------------------------------------------------
(* mireds_to_kelvin of the status tool *)

mireds_to_kelvin(mireds) == TruncDiv(MiredNumerator, mireds)

ConvIdle == [pc |-> "idle", kelvin |-> 0, mireds |-> 0, back |-> 0]

-----------------------------------------------------------------------------
(* monitor_camera: the classification of a line and the two guarded branches *)

Contains(line, marker) == \E i \in DOMAIN line : line[i] = marker

Classify_StopFirst(line) ==
    IF Contains(line, StopMarker) THEN "StopSignal"
    ELSE IF Contains(line, StartMarker) THEN "StartSignal"
    ELSE "Irrelevant"

\* The if / elif of the loop body: the class of a line
Classify(line) ==
    IF Contains(line, StartMarker) THEN "StartSignal"
    ELSE IF Contains(line, StopMarker) THEN "StopSignal"
    ELSE "Irrelevant"

TurnsOn_NoDebounce(line, cam) == Classify(line) = "StartSignal"
TurnsOn(line, cam) == Classify(line) = "StartSignal" /\ ~cam

TurnsOff_NoDebounce(line, cam) == Classify(line) = "StopSignal"
TurnsOff(line, cam) == Classify(line) = "StopSignal" /\ cam

\* camera_on after the loop body: set by the branch that fired
NextCamera_Forgotten(cam, turn_on, turn_off) == IF turn_off THEN FALSE ELSE cam
NextCamera(cam, turn_on, turn_off) ==
    IF turn_on THEN TRUE ELSE IF turn_off THEN FALSE ELSE cam

\* The loop reads the next line only between iterations: set_lights is
\* called from the loop body and returns before the next read
CanRead_Concurrent(p) == p \in {"read", "set_lights"}
CanRead(p) == p = "read"

\* The iterator of process.stdout ends when the producer has closed its end
\* and every line written has been read
EndOfStream_Early(buf, prod) == prod = "exited"
EndOfStream(buf, prod) == buf = <<>> /\ prod = "exited"

\* process.terminate() and process.wait(): the producer after them
Terminate_Forgotten(prod) == prod
Terminate(prod) == IF prod \in {"running", "blocked"} THEN "terminated" ELSE prod

\* main: "if not LIGHTS: sys.exit(1)"
NoLights_Ignored(lights) == FALSE
NoLights(lights) == lights = <<>>

-----------------------------------------------------------------------------
(* Inputs *)

Cfg_Empty == <<>>
Cfg_Blank == <<" ", " ">>
Cfg_TwoFields == <<"a", ":", "5">>
\* "bad:entry:with:too:many:parts", one letter per field
Cfg_SixFields == <<"b", ":", "e", ":", "w", ":", "t", ":", "m", ":", "p">>
Cfg_Bare == <<"a">>
\* "10.0.0.5:50:4500,10.0.0.6"
Cfg_Example ==
    <<"1", "0", ".", "0", ".", "0", ".", "5", ":", "5", "0", ":",
      "4", "5", "0", "0", ",", "1", "0", ".", "0", ".", "0", ".", "6">>
Cfg_Three == <<"a", ",", "b", ",", "c">>
\* "a:10:2900,b:20:7000,c:30:3200"
Cfg_Temps ==
    <<"a", ":", "1", "0", ":", "2", "9", "0", "0", ",",
      "b", ":", "2", "0", ":", "7", "0", "0", "0", ",",
      "c", ":", "3", "0", ":", "3", "2", "0", "0">>
Cfg_ZeroKelvin == <<"c", ":", "7", ":", "0">>
Cfg_ThenZeroKelvin == <<"a", ",", "c", ":", "7", ":", "0", ",", "b">>
Cfg_NonNumeric == <<"a", ",", "b", ":", "x", ":", "1">>
\* "a, b:5 ,c:1:2:3,, d: 50 :+4500"
Cfg_Mixed ==
    <<"a", ",", " ", "b", ":", "5", " ", ",", "c", ":", "1", ":", "2", ":",
      "3", ",", ",", " ", "d", ":", " ", "5", "0", " ", ":", "+", "4", "5",
      "0", "0">>
\* "a:-5:-1,b:150:9000"
Cfg_OutOfRange ==
    <<"a", ":", "-", "5", ":", "-", "1", ",",
      "b", ":", "1", "5", "0", ":", "9", "0", "0", "0">>

ConfigPool ==
    {Cfg_Empty, Cfg_Blank, Cfg_TwoFields, Cfg_SixFields, Cfg_Bare, Cfg_Example,
     Cfg_Three, Cfg_Temps, Cfg_ZeroKelvin, Cfg_ThenZeroKelvin, Cfg_NonNumeric,
     Cfg_Mixed, Cfg_OutOfRange}

Line_Other == <<"x">>
Line_Start == <<"x", StartMarker, "x">>
Line_Stop == <<"x", StopMarker, "x">>
Line_StartStop == <<StartMarker, StopMarker>>
Line_StopStart == <<StopMarker, StartMarker>>

LinePool == {Line_Other, Line_Start, Line_Stop, Line_StartStop, Line_StopStart}

-----------------------------------------------------------------------------
(* The process *)

Init ==
    /\ lights_env \in ConfigPool
    /\ LIGHTS = <<>>
    /\ pc = "import"
    /\ exit_code = -1
    /\ camera_on = InitialCameraOn
    /\ producer = "none"
    /\ popens = 0
    /\ stdout_buf = <<>>
    /\ emitted = 0
    /\ consumed = <<>>
    /\ cam_trace = <<InitialCameraOn>>
    /\ calls = <<>>
    /\ on = FALSE
    /\ idx = 0
    /\ sent = <<>>
    /\ loop_exit = "none"
    /\ uncaught = "none"
    /\ written = <<>>
    /\ req_log = <<>>
    /\ stderr_len = 0
    /\ conv = ConvIdle

\* Module import: LIGHTS = parse_lights_config(); a ValueError of int() is
\* uncaught and ends the process
ImportModule ==
    /\ pc = "import"
    /\ LET r == parse_lights_config(lights_env)
       IN  IF r.raised
           THEN /\ pc' = "exited"
                /\ exit_code' = ExitFailure
                /\ uncaught' = "ValueError"
                /\ UNCHANGED LIGHTS
           ELSE /\ pc' = "main"
                /\ LIGHTS' = r.lights
                /\ UNCHANGED <<exit_code, uncaught>>
    /\ UNCHANGED <<lights_env, camera_on, producer, popens, stdout_buf, emitted,
                   consumed, cam_trace, calls, on, idx, sent, loop_exit,
                   written, req_log, stderr_len, conv>>

\* main up to the call of monitor_camera
Main ==
    /\ pc = "main"
    /\ IF NoLights(LIGHTS)
       THEN /\ pc' = "exited"
            /\ exit_code' = ExitFailure
       ELSE /\ pc' = "popen"
            /\ UNCHANGED exit_code
    /\ UNCHANGED <<lights_env, LIGHTS, camera_on, producer, popens, stdout_buf,
                   emitted, consumed, cam_trace, calls, on, idx, sent, loop_exit, uncaught,
                   written, req_log, stderr_len, conv>>

\* monitor_camera up to the for loop: the producer is started
Popen ==
    /\ pc = "popen"
    /\ producer' = "running"
    /\ popens' = popens + 1
    /\ pc' = "read"
    /\ UNCHANGED <<lights_env, LIGHTS, exit_code, camera_on, stdout_buf, emitted,
                   consumed, cam_trace, calls, on, idx, sent, loop_exit, uncaught,
                   written, req_log, stderr_len, conv>>

\* The producer writes one line to its stdout
Emit ==
    /\ producer = "running"
    /\ emitted < MaxLines
    /\ \E line \in LinePool :
          /\ stdout_buf' = Append(stdout_buf, line)
          /\ written' = Append(written, line)
    /\ emitted' = emitted + 1
    /\ UNCHANGED <<lights_env, LIGHTS, pc, exit_code, camera_on, producer, popens,
                   consumed, cam_trace, calls, on, idx, sent, loop_exit, uncaught,
                   req_log, stderr_len, conv>>

\* The producer writes one chunk to its stderr: into the pipe while it has
\* room, and blocked in the write once it is full, since nothing reads it
EmitErr ==
    /\ producer = "running"
    /\ IF stderr_len < StderrCapacity
       THEN stderr_len' = stderr_len + 1 /\ UNCHANGED producer
       ELSE producer' = "blocked" /\ UNCHANGED stderr_len
    /\ UNCHANGED <<lights_env, LIGHTS, pc, exit_code, camera_on, popens, stdout_buf,
                   emitted, consumed, cam_trace, calls, on, idx, sent, loop_exit,
                   uncaught, written, req_log, conv>>

\* The producer exits on its own; its stdout reaches end of file once drained
ProducerExit ==
    /\ producer = "running"
    /\ producer' = "exited"
    /\ UNCHANGED <<lights_env, LIGHTS, pc, exit_code, camera_on, popens, stdout_buf,
                   emitted, consumed, cam_trace, calls, on, idx, sent, loop_exit, uncaught,
                   written, req_log, stderr_len, conv>>

\* One iteration of "for line in process.stdout" up to the set_lights call
ReadLine ==
    /\ CanRead(pc)
    /\ stdout_buf # <<>>
    /\ LET line == Head(stdout_buf)
           turn_on == TurnsOn(line, camera_on)
           turn_off == TurnsOff(line, camera_on)
           cam == NextCamera(camera_on, turn_on, turn_off)
       IN  /\ stdout_buf' = Tail(stdout_buf)
           /\ consumed' = Append(consumed, line)
           /\ camera_on' = cam
           /\ cam_trace' = Append(cam_trace, cam)
           /\ IF turn_on \/ turn_off
              THEN /\ calls' = Append(calls, turn_on)
                   /\ on' = turn_on
                   /\ idx' = 1
                   /\ sent' = <<>>
                   /\ req_log' = Append(req_log, <<>>)
                   /\ pc' = "set_lights"
              ELSE UNCHANGED <<calls, on, idx, sent, req_log, pc>>
    /\ UNCHANGED <<lights_env, LIGHTS, exit_code, producer, popens, emitted,
                   loop_exit, uncaught, written, stderr_len, conv>>

\* set_lights, one light: the payload is built and the request returns or fails
SendRequest ==
    /\ pc = "set_lights"
    /\ ~(on /\ DivisionRaises(LIGHTS[idx].temperature))
    /\ \E ok \in BOOLEAN : sent' = Append(sent, Request(LIGHTS[idx], on, ok))
    /\ req_log' = [req_log EXCEPT ![Len(req_log)] =
                      Append(@, Command(LIGHTS[idx], on))]
    /\ IF idx = Len(LIGHTS)
       THEN pc' = "read" /\ idx' = 0
       ELSE pc' = pc /\ idx' = idx + 1
    /\ UNCHANGED <<lights_env, LIGHTS, exit_code, camera_on, producer, popens,
                   stdout_buf, emitted, consumed, cam_trace, calls, on, loop_exit,
                   uncaught, written, stderr_len, conv>>

\* set_lights, one light: temperature_mireds divides by zero; the error leaves
\* set_lights and is caught by "except Exception" of monitor_camera
PayloadRaises ==
    /\ pc = "set_lights"
    /\ on /\ DivisionRaises(LIGHTS[idx].temperature)
    /\ pc' = "finally"
    /\ loop_exit' = "ZeroDivisionError"
    /\ UNCHANGED <<lights_env, LIGHTS, exit_code, camera_on, producer, popens,
                   stdout_buf, emitted, consumed, cam_trace, calls, on, idx, sent, uncaught,
                   written, req_log, stderr_len, conv>>

\* End of file on process.stdout: the for loop ends
ReadEOF ==
    /\ pc = "read"
    /\ EndOfStream(stdout_buf, producer)
    /\ pc' = "finally"
    /\ loop_exit' = "eof"
    /\ UNCHANGED <<lights_env, LIGHTS, exit_code, camera_on, producer, popens,
                   stdout_buf, emitted, consumed, cam_trace, calls, on, idx, sent, uncaught,
                   written, req_log, stderr_len, conv>>

\* KeyboardInterrupt while waiting for a line or inside a request
Interrupt ==
    /\ pc \in {"read", "set_lights"}
    /\ pc' = "finally"
    /\ loop_exit' = "KeyboardInterrupt"
    /\ UNCHANGED <<lights_env, LIGHTS, exit_code, camera_on, producer, popens,
                   stdout_buf, emitted, consumed, cam_trace, calls, on, idx, sent, uncaught,
                   written, req_log, stderr_len, conv>>

\* finally: process.terminate(); process.wait()
Finally ==
    /\ pc = "finally"
    /\ producer' = Terminate(producer)
    /\ pc' = "stopped"
    /\ UNCHANGED <<lights_env, LIGHTS, exit_code, camera_on, popens, stdout_buf,
                   emitted, consumed, cam_trace, calls, on, idx, sent, loop_exit, uncaught,
                   written, req_log, stderr_len, conv>>

\* monitor_camera returns and main falls off its end
MainReturns ==
    /\ pc = "stopped"
    /\ pc' = "exited"
    /\ exit_code' = ExitSuccess
    /\ UNCHANGED <<lights_env, LIGHTS, camera_on, producer, popens, stdout_buf,
                   emitted, consumed, cam_trace, calls, on, idx, sent, loop_exit, uncaught,
                   written, req_log, stderr_len, conv>>

Next ==
    \/ ImportModule
    \/ Main
    \/ Popen
    \/ Emit
    \/ EmitErr
    \/ ProducerExit
    \/ ReadLine
    \/ SendRequest
    \/ PayloadRaises
    \/ ReadEOF
    \/ Interrupt
    \/ Finally
    \/ MainReturns

Spec == Init /\ [][Next]_vars

-----------------------------------------------------------------------------
(* The conversions alone: a Kelvin value of the documented range is converted
   to mireds as set_lights sends it, and the mired value the light reports is
   converted back as the status tool displays it *)

InitConv ==
    /\ lights_env = Cfg_Empty
    /\ LIGHTS = <<>>
    /\ pc = "import"
    /\ exit_code = -1
    /\ camera_on = InitialCameraOn
    /\ producer = "none"
    /\ popens = 0
    /\ stdout_buf = <<>>
    /\ emitted = 0
    /\ consumed = <<>>
    /\ cam_trace = <<InitialCameraOn>>
    /\ calls = <<>>
    /\ on = FALSE
    /\ idx = 0
    /\ sent = <<>>
    /\ loop_exit = "none"
    /\ uncaught = "none"
    /\ written = <<>>
    /\ req_log = <<>>
    /\ stderr_len = 0
    /\ \E k \in MinKelvin..MaxKelvin :
          conv = [pc |-> "kelvin", kelvin |-> k, mireds |-> 0, back |-> 0]

ConvToMireds ==
    /\ conv.pc = "kelvin"
    /\ conv' = [conv EXCEPT !.pc = "mireds",
                            !.mireds = temperature_mireds(conv.kelvin)]
    /\ UNCHANGED <<lights_env, LIGHTS, pc, exit_code, camera_on, producer, popens,
                   stdout_buf, emitted, consumed, cam_trace, calls, on, idx, sent,
                   loop_exit, uncaught, written, req_log, stderr_len>>

ConvToKelvin ==
    /\ conv.pc = "mireds"
    /\ conv' = [conv EXCEPT !.pc = "back",
                            !.back = mireds_to_kelvin(conv.mireds)]
    /\ UNCHANGED <<lights_env, LIGHTS, pc, exit_code, camera_on, producer, popens,
                   stdout_buf, emitted, consumed, cam_trace, calls, on, idx, sent,
                   loop_exit, uncaught, written, req_log, stderr_len>>

NextConv ==
    \/ ConvToMireds
    \/ ConvToKelvin

SpecConv == InitConv /\ [][NextConv]_vars

-----------------------------------------------------------------------------
(* Properties *)

Count(seq, v) == Cardinality({i \in DOMAIN seq : seq[i] = v})

\* OFF->ON and ON->OFF changes of camera_on over the lines read
Rises(trace) == Cardinality({i \in 1..(Len(trace) - 1) : ~trace[i] /\ trace[i + 1]})
Falls(trace) == Cardinality({i \in 1..(Len(trace) - 1) : trace[i] /\ ~trace[i + 1]})

\* The class of the last line of lines that is not Irrelevant, "none" without one
RECURSIVE LastSignal(_)
LastSignal(lines) ==
    IF lines = <<>> THEN "none"
    ELSE IF Classify(lines[Len(lines)]) # "Irrelevant"
    THEN Classify(lines[Len(lines)])
    ELSE LastSignal(SubSeq(lines, 1, Len(lines) - 1))

\* C1: the number of set_lights(on=True) calls equals the number of OFF->ON
\* changes of camera_on, and the number of set_lights(on=False) calls the
\* number of ON->OFF changes: one call per transition, not one per line.
C1_DispatchPerTransition ==
    /\ Count(calls, TRUE) = Rises(cam_trace)
    /\ Count(calls, FALSE) = Falls(cam_trace)
    /\ Len(cam_trace) = Len(consumed) + 1

C1_Witness ==
    /\ consumed = <<Line_Start, Line_Start, Line_Stop>>
    /\ calls = <<TRUE, FALSE>>

\* C2: a StartSignal read when the last signal read was none or a StopSignal
\* makes one set_lights(on=True) call, and one read when the last signal was a
\* StartSignal makes no call; symmetrically a StopSignal after a StartSignal
\* makes one set_lights(on=False) call and one after a StopSignal none. So a
\* run of N signals of one kind, Irrelevant lines in between or not, makes
\* exactly one call.
C2_Debounce ==
    [][consumed' # consumed =>
        LET cls == Classify(consumed'[Len(consumed')])
            prev == LastSignal(consumed)
        IN  /\ (cls = "StartSignal" /\ prev # "StartSignal")
                => calls' = Append(calls, TRUE)
            /\ (cls = "StartSignal" /\ prev = "StartSignal") => calls' = calls
            /\ (cls = "StopSignal" /\ prev = "StartSignal")
                => calls' = Append(calls, FALSE)
            /\ (cls = "StopSignal" /\ prev = "StopSignal") => calls' = calls]_vars

C2_Witness ==
    /\ consumed = <<Line_Start, Line_Other, Line_StartStop>>
    /\ calls = <<TRUE>>
    /\ pc = "read"

\* C3: the set_lights calls alternate on, off, on, ... starting with on; after
\* a start line and then a stop line camera_on went OFF, ON, OFF and the calls
\* are exactly on then off.
C3_AlternatingDispatch ==
    /\ \A i \in DOMAIN calls : calls[i] = (i % 2 = 1)
    /\ (/\ Len(consumed) = 2
        /\ Classify(consumed[1]) = "StartSignal"
        /\ Classify(consumed[2]) = "StopSignal")
        => (calls = <<TRUE, FALSE>> /\ cam_trace = <<FALSE, TRUE, FALSE>>)

C3_Witness ==
    /\ consumed = <<Line_Start, Line_Stop>>
    /\ calls = <<TRUE, FALSE>>
    /\ pc = "read"
    /\ Len(sent) = Len(LIGHTS)
    /\ sent[1].payload.on = 0

\* C4: an Irrelevant line, a StartSignal read while camera_on, and a StopSignal
\* read while not camera_on leave camera_on unchanged, start no set_lights call
\* and send no request.
C4_NoOpEvents ==
    [][consumed' # consumed =>
        LET cls == Classify(consumed'[Len(consumed')])
        IN  (\/ cls = "Irrelevant"
             \/ cls = "StartSignal" /\ camera_on
             \/ cls = "StopSignal" /\ ~camera_on)
            => /\ camera_on' = camera_on
               /\ calls' = calls
               /\ sent' = sent
               /\ pc' = "read"]_vars

C4_Witness ==
    /\ consumed = <<Line_Stop, Line_Other, Line_Stop>>
    /\ calls = <<>>
    /\ ~camera_on

\* C5: whatever requests fail, a set_lights call that was not interrupted has
\* sent one request to every configured light, logged OK for exactly the
\* requests that succeeded and FAILED for the others, each under its own
\* address, and no exception left set_lights.
C5_FanOutIsolation ==
    (calls # <<>> /\ pc # "set_lights" /\ loop_exit # "KeyboardInterrupt")
        => /\ Len(sent) = Len(LIGHTS)
           /\ \A i \in DOMAIN sent :
                /\ sent[i].ip = LIGHTS[i].ip
                /\ (sent[i].logged = "OK") <=> sent[i].ok
           /\ loop_exit # "ZeroDivisionError"

\* C6: camera_on is ON exactly when the last signal read was a StartSignal,
\* whatever the outcome of the requests, and the loop only ends at end of file
\* or on an interrupt: a failing dispatch never ends it.
C6_StateFollowsLastSignal ==
    /\ camera_on = (LastSignal(consumed) = "StartSignal")
    /\ loop_exit \in {"none", "eof", "KeyboardInterrupt"}

\* C7: with a light of 0 Kelvin configured the process exits non-zero before
\* the producer is started, and no division by zero occurs.
C7_ZeroKelvinRejected ==
    (\E i \in DOMAIN LIGHTS : LIGHTS[i].temperature = 0)
        => /\ pc \in {"main", "exited"}
           /\ popens = 0
           /\ consumed = <<>>
           /\ loop_exit # "ZeroDivisionError"
           /\ (pc = "exited" => exit_code # ExitSuccess)

\* C8: an empty or whitespace-only configuration, or one without a valid
\* entry, parses to no light, and with no light main exits non-zero without
\* starting the producer, reading a line or sending a request.
C8_NoLightsExits ==
    /\ (pc # "import"
        /\ lights_env \in {Cfg_Empty, Cfg_Blank, Cfg_TwoFields, Cfg_SixFields})
        => LIGHTS = <<>>
    /\ (pc \notin {"import", "main"} /\ LIGHTS = <<>>)
        => /\ pc = "exited"
           /\ exit_code # ExitSuccess
           /\ popens = 0
           /\ producer = "none"
           /\ consumed = <<>>
           /\ calls = <<>>
           /\ sent = <<>>

C8_Witness ==
    /\ lights_env = Cfg_Blank
    /\ pc = "exited"
    /\ exit_code = ExitFailure

\* The targets the entries of each input describe, written out
C9_Expected(env) ==
    CASE env = Cfg_Bare -> <<LightConfig(<<"a">>, 100, 5600)>>
      [] env = Cfg_Example ->
            <<LightConfig(<<"1", "0", ".", "0", ".", "0", ".", "5">>, 50, 4500),
              LightConfig(<<"1", "0", ".", "0", ".", "0", ".", "6">>, 100, 5600)>>
      [] env = Cfg_Three ->
            <<LightConfig(<<"a">>, 100, 5600), LightConfig(<<"b">>, 100, 5600),
              LightConfig(<<"c">>, 100, 5600)>>
      [] env = Cfg_Temps ->
            <<LightConfig(<<"a">>, 10, 2900), LightConfig(<<"b">>, 20, 7000),
              LightConfig(<<"c">>, 30, 3200)>>
      [] env = Cfg_ZeroKelvin -> <<LightConfig(<<"c">>, 7, 0)>>
      [] env = Cfg_ThenZeroKelvin ->
            <<LightConfig(<<"a">>, 100, 5600), LightConfig(<<"c">>, 7, 0),
              LightConfig(<<"b">>, 100, 5600)>>
      [] env = Cfg_Mixed ->
            <<LightConfig(<<"a">>, 100, 5600), LightConfig(<<"d">>, 50, 4500)>>
      [] env = Cfg_OutOfRange ->
            <<LightConfig(<<"a">>, -5, -1), LightConfig(<<"b">>, 150, 9000)>>
      [] OTHER -> <<>>

\* C9: the targets are those of the entries, in input order: a bare address
\* gets brightness 100 and 5600 K, address:brightness:temperature its numbers,
\* an entry of 2 or of 4 and more fields nothing and no error, and the targets
\* of the input, as they stand once parsed, are those of the entries before a
\* comma followed by those of the entries after it.
C9_ParseInOrder ==
    /\ (pc # "import" /\ lights_env # Cfg_NonNumeric)
        => /\ uncaught = "none"
           /\ LIGHTS = C9_Expected(lights_env)
    /\ (pc = "main" /\ lights_env # Cfg_NonNumeric)
        => \A i \in DOMAIN lights_env :
                lights_env[i] = ","
                => LIGHTS = parse_lights_config(SubSeq(lights_env, 1, i - 1)).lights
                            \o parse_lights_config(
                                 SubSeq(lights_env, i + 1, Len(lights_env))).lights

C9_Witness ==
    /\ lights_env = Cfg_Mixed
    /\ pc = "read"
    /\ Len(LIGHTS) = 2
    /\ LIGHTS[2].brightness = 50

\* C10 as stated: the mired value of every turn-on request of a light of k > 0
\* Kelvin is 1000000 / k rounded to a nearest integer and clamped to [143,344].
C10_MiredRounded ==
    \A i \in DOMAIN sent :
        (sent[i].payload.on = 1 /\ LIGHTS[i].temperature > 0)
        => LET k == LIGHTS[i].temperature
               m == sent[i].payload.temperature
           IN  \/ m = MinMireds /\ 2 * MiredNumerator <= (2 * MinMireds + 1) * k
               \/ m = MaxMireds /\ 2 * MiredNumerator >= (2 * MaxMireds - 1) * k
               \/ /\ MinMireds <= m /\ m <= MaxMireds
                  /\ (2 * m - 1) * k <= 2 * MiredNumerator
                  /\ 2 * MiredNumerator <= (2 * m + 1) * k

\* C10, amended: the mired value of every turn-on request of a light of k > 0
\* Kelvin is 1000000 / k truncated to an integer and clamped to [143,344].
C10_MiredTruncated ==
    \A i \in DOMAIN sent :
        (sent[i].payload.on = 1 /\ LIGHTS[i].temperature > 0)
        => LET k == LIGHTS[i].temperature
               m == sent[i].payload.temperature
           IN  \/ m = MinMireds /\ MiredNumerator < (MinMireds + 1) * k
               \/ m = MaxMireds /\ MiredNumerator >= MaxMireds * k
               \/ /\ MinMireds <= m /\ m <= MaxMireds
                  /\ m * k <= MiredNumerator
                  /\ MiredNumerator < (m + 1) * k

C10_Witness ==
    /\ sent # <<>>
    /\ sent[1].payload.on = 1
    /\ LIGHTS[1].temperature = 5600
    /\ sent[1].payload.temperature = 178

\* C11 as stated: for every Kelvin value of [2900,7000] the value converted to
\* mireds and back differs from it by at most 1, and the mired value is in
\* [143,344].
C11_RoundTripWithinOne ==
    conv.pc = "back"
        => /\ conv.back - conv.kelvin <= 1
           /\ conv.kelvin - conv.back <= 1
           /\ MinMireds <= conv.mireds /\ conv.mireds <= MaxMireds

\* C11, amended: for every Kelvin value of [2900,7000] the value converted to
\* mireds and back differs from it by at most 48, and the mired value is in
\* [143,344].
C11_RoundTripWithin48 ==
    /\ conv.pc \in {"mireds", "back"}
        => (MinMireds <= conv.mireds /\ conv.mireds <= MaxMireds)
    /\ conv.pc = "back"
        => /\ conv.back - conv.kelvin <= 48
           /\ conv.kelvin - conv.back <= 48

C11_Witness ==
    /\ conv.pc = "back"
    /\ conv.kelvin = 6945
    /\ conv.mireds = MinMireds
    /\ conv.back = 6993

\* C12: every configured light has a brightness in [0,100] and a temperature
\* in [2900,7000] Kelvin, and every turn-on request carries a brightness in
\* [0,100].
C12_TargetsInRange ==
    /\ \A i \in DOMAIN LIGHTS :
         /\ 0 <= LIGHTS[i].brightness /\ LIGHTS[i].brightness <= 100
         /\ MinKelvin <= LIGHTS[i].temperature
         /\ LIGHTS[i].temperature <= MaxKelvin
    /\ \A i \in DOMAIN sent :
         sent[i].payload.on = 1
         => (0 <= sent[i].payload.brightness /\ sent[i].payload.brightness <= 100)

\* C13: every request of a turn-off call carries on = 0 and nothing else; every
\* request of a turn-on call carries on = 1, the brightness of its own light
\* and its own light's temperature as a mired value in [143,344].
C13_PayloadEncoding ==
    \A i \in DOMAIN sent :
        LET p == sent[i].payload
            k == LIGHTS[i].temperature
        IN  IF calls[Len(calls)]
            THEN /\ DOMAIN p = {"on", "brightness", "temperature"}
                 /\ p.on = 1
                 /\ p.brightness = LIGHTS[i].brightness
                 /\ MinMireds <= p.temperature /\ p.temperature <= MaxMireds
                 /\ (MinMireds < p.temperature /\ p.temperature < MaxMireds)
                    => (p.temperature * k <= MiredNumerator
                        /\ MiredNumerator < (p.temperature + 1) * k)
            ELSE /\ DOMAIN p = {"on"}
                 /\ p.on = 0

C13_Witness ==
    /\ lights_env = Cfg_Temps
    /\ calls = <<TRUE, FALSE>>
    /\ pc = "read"
    /\ Len(sent) = 3
    /\ sent[3].payload = [on |-> 0]
    /\ req_log[1][3].payload = [on |-> 1, brightness |-> 30, temperature |-> 312]

\* C14: two set_lights calls with the same argument issue the same requests,
\* address and payload, in the same order, as far as both got, whatever
\* camera_on, the calls in between and the outcomes of the requests were.
C14_IdempotentDispatch ==
    /\ Len(req_log) = Len(calls)
    /\ \A c1 \in DOMAIN req_log : \A c2 \in DOMAIN req_log :
         calls[c1] = calls[c2]
         => \A i \in DOMAIN req_log[c1] \cap DOMAIN req_log[c2] :
                req_log[c1][i] = req_log[c2][i]

C14_Witness ==
    /\ lights_env = Cfg_Example
    /\ calls = <<TRUE, FALSE, TRUE>>
    /\ pc = "read"
    /\ req_log[1] = req_log[3]
    /\ Len(req_log[3]) = 2
    /\ ~sent[1].ok

\* C15: after a KeyboardInterrupt in the loop, raised while waiting for a line
\* or inside a set_lights call, the loop is over, no line is read, no
\* set_lights call is made and no request is sent any more, the producer is
\* not started again, it is terminated once the finally block has run, and the
\* process exits with code 0.
C15_GracefulInterrupt ==
    /\ [](loop_exit = "KeyboardInterrupt"
          => /\ pc \in {"finally", "stopped", "exited"}
             /\ pc \in {"stopped", "exited"} => producer \in {"terminated", "exited"}
             /\ pc = "exited" => exit_code = ExitSuccess)
    /\ [][loop_exit = "KeyboardInterrupt"
          => /\ loop_exit' = loop_exit
             /\ consumed' = consumed
             /\ calls' = calls
             /\ sent' = sent
             /\ req_log' = req_log
             /\ popens' = popens]_vars

C15_Witness ==
    /\ loop_exit = "KeyboardInterrupt"
    /\ pc = "exited"
    /\ exit_code = ExitSuccess
    /\ producer = "terminated"
    /\ lights_env = Cfg_Three
    /\ calls = <<TRUE>>
    /\ Len(sent) = 1
    /\ camera_on

\* C16: the loop ends at end of file only when the producer has exited and
\* every line it wrote has been read, in the order written; a loop waiting on
\* an exited producer can always read a line or end; after the loop has ended
\* no line is read, no set_lights call is made and no request is sent; and
\* the producer is started once and never again.
C16_StreamEndStopsLoop ==
    /\ [](/\ popens <= 1
          /\ (pc = "read" /\ producer = "exited")
             => (ENABLED ReadLine \/ ENABLED ReadEOF)
          /\ loop_exit = "eof"
             => /\ pc \in {"finally", "stopped", "exited"}
                /\ producer = "exited"
                /\ stdout_buf = <<>>
                /\ consumed = written)
    /\ [][loop_exit = "eof"
          => /\ loop_exit' = loop_exit
             /\ consumed' = consumed
             /\ calls' = calls
             /\ sent' = sent
             /\ req_log' = req_log
             /\ popens' = popens
             /\ producer' = producer]_vars

C16_Witness ==
    /\ loop_exit = "eof"
    /\ pc = "stopped"
    /\ popens = 1
    /\ consumed = <<Line_Start, Line_Stop, Line_Other>>
    /\ calls = <<TRUE, FALSE>>

\* C17: while a set_lights call is in progress no line is read and no other
\* call is started; every call before the latest one has sent all its
\* requests; and the lines read followed by the lines waiting are the lines
\* written, in the order written.
C17_SynchronousDispatch ==
    /\ [](/\ consumed \o stdout_buf = written
          /\ \A c \in DOMAIN req_log :
               c < Len(req_log) => Len(req_log[c]) = Len(LIGHTS))
    /\ [][pc = "set_lights"
          => /\ consumed' = consumed
             /\ stdout_buf' \in {stdout_buf} \cup
                                {Append(stdout_buf, l) : l \in LinePool}
             /\ camera_on' = camera_on
             /\ calls' = calls]_vars

C17_Witness ==
    /\ lights_env = Cfg_Example
    /\ pc = "set_lights"
    /\ calls = <<TRUE, FALSE>>
    /\ Len(req_log[1]) = 2
    /\ Len(req_log[2]) = 1
    /\ consumed = <<Line_Start, Line_Stop>>
    /\ stdout_buf = <<Line_Start>>

\* C18: every set_lights call that no interrupt cut short has sent exactly one
\* request to each configured light, in configuration order: as many requests
\* as there are lights, none repeated.
C18_OneRequestPerLight ==
    \A c \in DOMAIN req_log :
        (c < Len(req_log) \/ (pc # "set_lights" /\ loop_exit # "KeyboardInterrupt"))
        => /\ Len(req_log[c]) = Len(LIGHTS)
           /\ \A i \in DOMAIN req_log[c] : req_log[c][i].ip = LIGHTS[i].ip

\* C19: a line read is classified by the markers it holds, the start marker
\* first: with the start marker, with or without the stop marker, it is a
\* StartSignal and can only turn the camera and the lights on; with the stop
\* marker alone it is a StopSignal and can only turn them off; otherwise it is
\* Irrelevant and changes nothing. One line makes at most one set_lights call.
C19_Classification ==
    [][consumed' # consumed =>
        LET line == consumed'[Len(consumed')]
            words == {line[i] : i \in DOMAIN line}
            start == StartMarker \in words
            stop == StopMarker \in words
        IN  /\ Classify(line) = (IF start THEN "StartSignal"
                                 ELSE IF stop THEN "StopSignal"
                                 ELSE "Irrelevant")
            /\ start => (camera_on' /\ calls' \in {calls, Append(calls, TRUE)})
            /\ (~start /\ stop)
               => (~camera_on' /\ calls' \in {calls, Append(calls, FALSE)})
            /\ (~start /\ ~stop) => (camera_on' = camera_on /\ calls' = calls)
            /\ Len(calls') <= Len(calls) + 1]_vars

C19_Witness ==
    /\ consumed = <<Line_Start, Line_StartStop, Line_StopStart>>
    /\ calls = <<TRUE>>
    /\ camera_on
    /\ pc = "read"

\* C20: the producer and the consumer are never both blocked: there is no
\* state in which the loop waits for a line, none is buffered, and the
\* producer is stuck in a write to its stderr pipe, which nothing reads.
C20_NeverBothBlocked ==
    ~(/\ pc = "read"
      /\ stdout_buf = <<>>
      /\ producer = "blocked")

====
